---------------------------- MODULE Spec2Model ----------------------------
(***************************************************************************)
(* Model of the DeepSpec literature workbench (src/app_debug.py and the    *)
(* src/utils modules it calls).                                            *)
(*                                                                         *)
(* One action is one Streamlit script run, triggered by one user           *)
(* interaction: the script runs top to bottom (upload loop, batch          *)
(* extraction, navigation, editor, report preview) and the handler of the  *)
(* clicked button runs on the way.  st.session_state is the program state. *)
(*                                                                         *)
(* Python strings are modelled as sequences of tokens, so that an          *)
(* f-string is a concatenation (\o) and "" is << >>.  An optional value    *)
(* (None or a value) is a sequence of length at most one.                  *)
(***************************************************************************)
EXTENDS Integers, Sequences, FiniteSets, TLC

None == << >>
Some(x) == << x >>

(* A field that holds a list of strings can also hold a single str.   *)
(* Lists are sequences of texts; a bare str is kept apart from them   *)
(* as the pair of StrTag and its text.                                *)
StrTag == <<"#str">>
Bare(text) == << StrTag, text >>

(* isinstance(value, str) *)
IsBareString(value) == Len(value) = 2 /\ value[1] = StrTag

(* if isinstance(value, str): value = [value] *)
Normalize(value) == IF IsBareString(value) THEN << value[2] >> ELSE value

(* status literals of app_debug.py: "待分析", "已提取", "已提取(后备)", "已审核" *)
Pending == "Pending"
Extracted == "Extracted"
ExtractedFallback == "ExtractedFallback"
Reviewed == "Reviewed"

Statuses == {Pending, Extracted, ExtractedFallback, Reviewed}

(* ------------------------------------------------------------------ *)
(* Inputs: the files a user can upload, what the PDF library finds in  *)
(* them, what the cropper returns, what the reviewer types.            *)
(* ------------------------------------------------------------------ *)
Files == {"a.pdf", "b.pdf", "c.pdf"}

(* the longest review session explored: clicks of the editor and report *)
(* buttons (save, bind, add row, generate)                              *)
MaxClicks == 3
(* the same, for a session that starts with a batch of three papers *)
MaxBatchClicks == 2

(* page texts of each file as pdfplumber extracts them; "" is a page   *)
(* without extractable text                                            *)
FilePages(f) ==
    CASE f = "a.pdf" -> << <<"a1">>, <<"a2">> >>
      [] f = "b.pdf" -> << <<"b1">>, << >>, <<"b3">>, <<"b4">> >>
      [] OTHER       -> << <<"c1">> >>

(* lists of files one interaction with the file uploader can hold: a  *)
(* session with two papers, and a session with a batch of three       *)
UploadLists == {<<"a.pdf">>, <<"b.pdf", "a.pdf">>}
BatchUploadLists == {<<"a.pdf", "b.pdf", "c.pdf">>}

(* images the cropper widget can return *)
Images == {"img1", "img2"}

(* texts the reviewer types into the editor *)
EditTexts == {"A", "B"}

(* values of datetime.now() seen by the report generator *)
Times == {"t1", "t2"}

Range(s) == {s[i] : i \in 1..Len(s)}


(* ------------------------------------------------------------------ *)
(* utils/structured_extractor.py and utils/ai_extractor.py             *)
(* ------------------------------------------------------------------ *)

(* StructuredExtractor.get_mock_structured_data: the fixed placeholder *)
get_mock_structured_data ==
    [title       |-> <<"mock_title">>,
     purpose     |-> <<"mock_purpose">>,
     conclusion  |-> << <<"mock_c1">>, <<"mock_c2">>, <<"mock_c3">> >>,
     params      |-> <<"mock_params">>,
     formulas    |-> << <<"mock_f1">>, <<"mock_f2">> >>,
     comments    |-> <<"mock_comments">>,
     why         |-> <<"mock_why">>,
     page_source |-> <<"4, 6, 8">>]

(* What the chat-completion endpoint does for one record.  Each value  *)
(* gives, per extraction category, the outcome of                     *)
(* openai.ChatCompletion.create and the text it returned.             *)
(*   kind "json"     the reply is a JSON object, parsed by json.loads *)
(*   kind "garbage"  the reply is neither JSON nor a fenced block     *)
(*   kind "raise"    the call raises (no key, network, rate limit)    *)
ItemS1 == [content |-> <<"aim", "s1">>, source_page |-> "2", explanation |-> <<"title">>]
ItemS2 == [content |-> <<"s2">>, source_page |-> "1", explanation |-> << >>]
ItemSBad == [content |-> <<"s3">>, source_page |-> "N/A", explanation |-> << >>]
ItemP1 == [content |-> <<"p1">>, source_page |-> "3", explanation |-> << >>]
ItemE1 == [content |-> <<"$$", "e1", "$$">>, source_page |-> "3", explanation |-> << >>]

ReplyJson(items) == [kind |-> "json", items |-> items]
ReplyGarbage == [kind |-> "garbage", items |-> << >>]
ReplyRaise == [kind |-> "raise", items |-> << >>]

ApiOk == [summary |-> ReplyJson(<<ItemS1, ItemS2, ItemS1>>), parameters |-> ReplyJson(<<ItemP1>>),
          equations |-> ReplyJson(<<ItemE1>>), figures |-> ReplyJson(<< >>)]
ApiDown == [summary |-> ReplyRaise, parameters |-> ReplyRaise,
            equations |-> ReplyRaise, figures |-> ReplyRaise]
ApiGarbage == [summary |-> ReplyGarbage, parameters |-> ReplyJson(<<ItemP1>>),
               equations |-> ReplyGarbage, figures |-> ReplyGarbage]
ApiBadPage == [summary |-> ReplyJson(<<ItemS2, ItemSBad>>), parameters |-> ReplyJson(<< >>),
               equations |-> ReplyJson(<< >>), figures |-> ReplyJson(<< >>)]

ApiBehaviours == {ApiOk, ApiDown, ApiGarbage, ApiBadPage}

(* the chat-completion call of a behaviour fails: it raises *)
ApiFailed(api) == \E k \in DOMAIN api : api[k].kind = "raise"

(* AIExtractor._call_openai_api: the dict it returns; the outer        *)
(* except turns a raising call into an "error" dict with no items      *)
_call_openai_api(reply) ==
    CASE reply.kind = "json"    -> [has_items |-> TRUE, items |-> reply.items, error |-> FALSE]
      [] reply.kind = "garbage" -> [has_items |-> FALSE, items |-> << >>, error |-> TRUE]
      [] OTHER                  -> [has_items |-> TRUE, items |-> << >>, error |-> TRUE]

(* int(x.get("source_page", 0)) *)
PageNumbers == [p \in {"1", "2", "3"} |-> CASE p = "1" -> 1 [] p = "2" -> 2 [] OTHER -> 3]
IntOk(p) == p \in DOMAIN PageNumbers

RECURSIVE Dedup(_, _)
Dedup(items, seen) ==
    IF items = << >> THEN << >>
    ELSE IF Head(items).content \in seen THEN Dedup(Tail(items), seen)
         ELSE <<Head(items)>> \o Dedup(Tail(items), seen \cup {Head(items).content})

(* list.sort(key=...): stable insertion by page number *)
RECURSIVE InsertByPage(_, _)
InsertByPage(sorted, it) ==
    IF sorted = << >> THEN <<it>>
    ELSE IF PageNumbers[it.source_page] < PageNumbers[Head(sorted).source_page]
         THEN <<it>> \o sorted
         ELSE <<Head(sorted)>> \o InsertByPage(Tail(sorted), it)

RECURSIVE SortByPage(_)
SortByPage(items) ==
    IF items = << >> THEN << >>
    ELSE InsertByPage(SortByPage(SubSeq(items, 1, Len(items) - 1)), items[Len(items)])

(* AIExtractor._deduplicate_and_sort: raises ValueError when a page    *)
(* is not an integer literal                                           *)
_deduplicate_and_sort(items) ==
    LET d == Dedup(items, {}) IN
    IF \E i \in 1..Len(d) : ~IntOk(d[i].source_page)
    THEN [raised |-> TRUE, items |-> << >>]
    ELSE [raised |-> FALSE, items |-> SortByPage(d)]

(* AIExtractor._extract_summary and its three siblings, on one chunk *)
_extract_category(reply) ==
    LET result == _call_openai_api(reply) IN
    _deduplicate_and_sort(IF result.has_items THEN result.items ELSE << >>)

(* AIExtractor.extract_from_text *)
extract_from_text(api) ==
    LET s == _extract_category(api.summary)
        p == _extract_category(api.parameters)
        e == _extract_category(api.equations)
        g == _extract_category(api.figures)
    IN  IF s.raised \/ p.raised \/ e.raised \/ g.raised
        THEN [raised |-> TRUE, msg |-> <<"invalid literal for int()">>]
        ELSE [raised |-> FALSE, summary |-> s.items, parameters |-> p.items,
              equations |-> e.items, figures |-> g.items]

Keywords == {"aim", "objective", "purpose"}
HasKeyword(content) == Range(content) \cap Keywords # {}

RECURSIVE _extract_title(_)
_extract_title(summary) ==
    IF summary = << >> THEN <<"unknown_title">>
    ELSE IF "title" \in Range(Head(summary).explanation) THEN Head(summary).content
         ELSE _extract_title(Tail(summary))

RECURSIVE JoinWith(_, _)
JoinWith(parts, sep) ==
    IF parts = << >> THEN << >>
    ELSE IF Len(parts) = 1 THEN parts[1]
         ELSE parts[1] \o sep \o JoinWith(Tail(parts), sep)

Contents(items) == [i \in 1..Len(items) |-> items[i].content]

_extract_purpose(summary) ==
    LET purpose_items == SelectSeq(Contents(summary), HasKeyword) IN
    IF purpose_items # << >> THEN JoinWith(purpose_items, <<" ">>)
    ELSE <<"purpose_missing">>

(* faulty variant: the conclusions are joined into one string, as the *)
(* purpose is                                                          *)
_extract_conclusions_Joined(summary) ==
    Bare(JoinWith(SelectSeq(Contents(summary), LAMBDA c : ~HasKeyword(c)), <<" ">>))

_extract_conclusions(summary) ==
    SelectSeq(Contents(summary), LAMBDA c : ~HasKeyword(c))

_extract_parameters(parameters) ==
    JoinWith([i \in 1..Len(parameters) |-> <<"* ">> \o parameters[i].content], <<"\n">>)

LatexOf(content) ==
    IF Len(content) >= 3 /\ content[1] = "$$" /\ content[Len(content)] = "$$"
    THEN SubSeq(content, 2, Len(content) - 1)
    ELSE content

_extract_formulas(equations) ==
    [i \in 1..Len(equations) |-> LatexOf(equations[i].content)]

(* ", ".join(sorted(pages)) over the set of str(source_page) *)
RECURSIVE SortedPages(_)
SortedPages(pages) ==
    IF pages = {} THEN << >>
    ELSE LET m == CHOOSE x \in pages : \A y \in pages : PageNumbers[x] <= PageNumbers[y]
         IN  <<m>> \o SortedPages(pages \ {m})

_extract_page_source(summary) ==
    LET pages == {summary[i].source_page : i \in 1..Len(summary)} IN
    IF pages # {} THEN JoinWith([i \in 1..Cardinality(pages) |-> <<SortedPages(pages)[i]>>], <<", ">>)
    ELSE <<"unknown">>

(* StructuredExtractor._convert_to_structured_format *)
_convert_to_structured_format(basic) ==
    [title       |-> _extract_title(basic.summary),
     purpose     |-> _extract_purpose(basic.summary),
     conclusion  |-> _extract_conclusions(basic.summary),
     params      |-> _extract_parameters(basic.parameters),
     formulas    |-> _extract_formulas(basic.equations),
     comments    |-> << >>,
     why         |-> << >>,
     page_source |-> _extract_page_source(basic.summary)]

(* StructuredExtractor.extract_structured_data *)
extract_structured_data(api) ==
    LET basic == extract_from_text(api) IN
    IF basic.raised THEN [raised |-> TRUE, msg |-> basic.msg]
    ELSE [raised |-> FALSE, data |-> _convert_to_structured_format(basic)]


(* ------------------------------------------------------------------ *)
(* utils/pdf_processor.py                                              *)
(* ------------------------------------------------------------------ *)

(* How PDFProcessor.process_pdf can end:                               *)
(*   "ok"         both libraries read the file                         *)
(*   "fail_open"  pdfplumber.open raises: self.pages is not assigned   *)
(*   "fail_fitz"  self.pages is assigned, then PyMuPDF raises          *)
PdfOutcomes == {"ok", "fail_open", "fail_fitz"}

(* the outcomes that differ in the pages they leave, for a call whose *)
(* returned flag only chooses a message                               *)
Reloads == {"ok", "fail_open"}

(* PDFProcessor.process_pdf: the pages afterwards and the returned flag *)
process_pdf(pages, f, outcome) ==
    [pages   |-> IF outcome = "fail_open" THEN pages ELSE FilePages(f),
     success |-> outcome = "ok"]

(* PDFProcessor.get_page_count *)
get_page_count(pages) == Len(pages)

(* PDFProcessor.extract_text_by_page *)
extract_text_by_page(pages, page_num) ==
    IF pages = << >> \/ page_num < 1 \/ page_num > Len(pages)
    THEN <<"invalid page number">>
    ELSE pages[page_num]

Min(a, b) == IF a < b THEN a ELSE b

(* the text loop of the batch handler: range(1, min(4, count + 1)) *)
RECURSIVE PagesText(_, _, _)
PagesText(pages, page_num, stop) ==
    IF page_num >= stop THEN << >>
    ELSE LET page_text == extract_text_by_page(pages, page_num) IN
         (IF page_text # << >> THEN page_text \o <<"\n\n">> ELSE << >>)
             \o PagesText(pages, page_num + 1, stop)

(* the page numbers the loop passes to extract_text_by_page *)
FirstPagesRead(pages) == [i \in 1..(Min(4, get_page_count(pages) + 1) - 1) |-> i]

(* faulty variant: the loop runs over every page of the document *)
FirstPagesText_AllPages(pages) == PagesText(pages, 1, get_page_count(pages) + 1)

(* the text the loop builds for the extraction adapter *)
FirstPagesText(pages) == PagesText(pages, 1, Min(4, get_page_count(pages) + 1))

(* ------------------------------------------------------------------ *)
(* State: st.session_state of app_debug.py                             *)
(* ------------------------------------------------------------------ *)
VARIABLES
    papers_keys,    \* insertion order of the dict papers_data
    papers_data,    \* file name -> record
    current_file,   \* None or the file open in the editor
    word_buffer,    \* None or the generated report
    event,          \* the interaction that triggered the last script run
    clicks,         \* editor and report buttons clicked so far in the session
    session_state   \* st.session_state of app_v2.py, the single-paper workflow

vars == <<papers_keys, papers_data, current_file, word_buffer, event, clicks, session_state>>

(* app_v2.py, init_session_state: the keys the single-paper workflow   *)
(* reads; pages is pdf_processor.pages; selected_image_index is absent *)
(* (None) until a crop is chosen                                       *)
init_session_state ==
    [pages                |-> << >>,
     uploaded_file        |-> None,
     structured_data      |-> None,
     analyzed_papers      |-> << >>,
     cropped_images       |-> << >>,
     selected_image_index |-> None]

(* the record the upload loop creates *)
NewRecord(f) ==
    [file_obj       |-> f,
     status         |-> Pending,
     extracted_data |-> None,
     pages          |-> << >>,
     selected_image |-> None,
     error_log      |-> << >>]

Init ==
    /\ papers_keys = << >>
    /\ papers_data = << >>
    /\ current_file = None
    /\ word_buffer = None
    /\ event = [op |-> "start"]
    /\ clicks = 0
    /\ session_state = init_session_state

(* dict insertion: a new key goes last, an existing key keeps its place *)
Put(keys, data, f, info) ==
    [keys |-> IF f \in Range(keys) THEN keys ELSE Append(keys, f),
     data |-> [k \in Range(keys) \cup {f} |-> IF k = f THEN info ELSE data[k]]]

(* ------------------------------------------------------------------ *)
(* The editor tab, rendered by every script run                        *)
(* ------------------------------------------------------------------ *)

(* the else branch of the status gate and the truth test of the data *)
EditorOpen(data, cur) ==
    /\ cur # None
    /\ data[cur[1]].status # Pending
    /\ data[cur[1]].extracted_data # None

(* col_media: a record without loaded pages is processed again *)
RenderEditor(data, cur, outcome) ==
    IF EditorOpen(data, cur) /\ data[cur[1]].pages = << >>
    THEN [data EXCEPT ![cur[1]].pages = process_pdf(@, cur[1], outcome).pages]
    ELSE data


(* ------------------------------------------------------------------ *)
(* Sidebar 1: upload                                                   *)
(* ------------------------------------------------------------------ *)
(* faulty variant: the upload loop without its "not in papers_data" test *)
RECURSIVE UploadLoop_Overwrite(_, _, _)
UploadLoop_Overwrite(keys, data, uploaded_files) ==
    IF uploaded_files = << >> THEN [keys |-> keys, data |-> data]
    ELSE LET f == Head(uploaded_files)
             next == Put(keys, data, f, NewRecord(f))
         IN  UploadLoop_Overwrite(next.keys, next.data, Tail(uploaded_files))

(* faulty variant: the store is a list and every uploaded file is    *)
(* appended to it                                                    *)
RECURSIVE UploadLoop_Append(_, _, _)
UploadLoop_Append(keys, data, uploaded_files) ==
    IF uploaded_files = << >> THEN [keys |-> keys, data |-> data]
    ELSE LET f == Head(uploaded_files)
             next == [keys |-> Append(keys, f),
                      data |-> [k \in Range(keys) \cup {f} |->
                                  IF k \in Range(keys) THEN data[k] ELSE NewRecord(f)]]
         IN  UploadLoop_Append(next.keys, next.data, Tail(uploaded_files))

RECURSIVE UploadLoop(_, _, _)
UploadLoop(keys, data, uploaded_files) ==
    IF uploaded_files = << >> THEN [keys |-> keys, data |-> data]
    ELSE LET f == Head(uploaded_files)
             next == IF f \notin Range(keys) THEN Put(keys, data, f, NewRecord(f))
                     ELSE [keys |-> keys, data |-> data]
         IN  UploadLoop(next.keys, next.data, Tail(uploaded_files))

Upload(uploaded_files, po) ==
    LET up == UploadLoop(papers_keys, papers_data, uploaded_files) IN
    /\ papers_keys' = up.keys
    /\ papers_data' = RenderEditor(up.data, current_file, po)
    /\ event' = [op |-> "upload", files |-> uploaded_files]
    /\ UNCHANGED <<current_file, word_buffer, clicks, session_state>>

(* ------------------------------------------------------------------ *)
(* Sidebar 2: batch extraction                                         *)
(* ------------------------------------------------------------------ *)
(* faulty variant: the batch takes every record, not only the pending ones *)
pending_files_all(keys, data) == keys

pending_files(keys, data) == SelectSeq(keys, LAMBDA name : data[name].status = Pending)

ApiNotCalled == [called |-> FALSE]

(* what can happen to one record of the batch: the outcome of          *)
(* process_pdf and, when the adapter is called, what the API does      *)
FileOutcomes(use_mock_data, pdfs, apis) ==
    {[pdf |-> p, api |-> ApiNotCalled] : p \in pdfs \ {"ok"}}
    \cup {[pdf |-> "ok", api |-> a] :
            a \in IF use_mock_data THEN {ApiNotCalled} ELSE apis}

(* the body of the try block: the data, or the exception raised *)
TryExtract(info, fname, use_mock_data, o) ==
    LET pdf == process_pdf(info.pages, info.file_obj, o.pdf) IN
    IF ~pdf.success
    THEN [raised |-> TRUE, msg |-> <<"pdf processing failed">>, pages |-> pdf.pages]
    ELSE IF use_mock_data
         THEN [raised |-> FALSE, pages |-> pdf.pages,
               data |-> [get_mock_structured_data EXCEPT !.title = <<"mock: ", fname>>]]
         ELSE LET r == extract_structured_data(o.api) IN
              IF r.raised THEN [raised |-> TRUE, msg |-> r.msg, pages |-> pdf.pages]
              ELSE [raised |-> FALSE, pages |-> pdf.pages, data |-> r.data]

(* faulty variant: the except branch logs the error and stores the fallback   *)
(* data but does not set the status                                   *)
ExtractOne_NoFallbackStatus(info, fname, use_mock_data, o) ==
    LET t == TryExtract(info, fname, use_mock_data, o) IN
    IF ~t.raised
    THEN [info EXCEPT !.pages = t.pages,
                      !.extracted_data = Some(t.data),
                      !.status = Extracted]
    ELSE [info EXCEPT !.pages = t.pages,
                      !.error_log = Append(@, <<fname, " extract failed: ">> \o t.msg),
                      !.extracted_data =
                          Some([get_mock_structured_data EXCEPT !.title = <<"fallback: ", fname>>])]

(* faulty variant: the except branch sets the status but stores no data *)
ExtractOne_NoFallbackData(info, fname, use_mock_data, o) ==
    LET t == TryExtract(info, fname, use_mock_data, o) IN
    IF ~t.raised
    THEN [info EXCEPT !.pages = t.pages,
                      !.extracted_data = Some(t.data),
                      !.status = Extracted]
    ELSE [info EXCEPT !.pages = t.pages,
                      !.error_log = Append(@, <<fname, " extract failed: ">> \o t.msg),
                      !.status = ExtractedFallback]

(* one iteration of the for loop over pending_files *)
ExtractOne(info, fname, use_mock_data, o) ==
    LET t == TryExtract(info, fname, use_mock_data, o) IN
    IF ~t.raised
    THEN [info EXCEPT !.pages = t.pages,
                      !.extracted_data = Some(t.data),
                      !.status = Extracted]
    ELSE [info EXCEPT !.pages = t.pages,
                      !.error_log = Append(@, <<fname, " extract failed: ">> \o t.msg),
                      !.extracted_data =
                          Some([get_mock_structured_data EXCEPT !.title = <<"fallback: ", fname>>]),
                      !.status = ExtractedFallback]

RECURSIVE BatchLoop(_, _, _, _)
BatchLoop(data, names, use_mock_data, outcome) ==
    IF names = << >> THEN data
    ELSE LET fname == Head(names) IN
         BatchLoop([data EXCEPT ![fname] = ExtractOne(@, fname, use_mock_data, outcome[fname])],
                   Tail(names), use_mock_data, outcome)

BatchExtract(api_key, use_mock_data, outcome, po) ==
    LET names == pending_files(papers_keys, papers_data) IN
    /\ names # << >>
    /\ IF ~api_key /\ ~use_mock_data
       THEN /\ papers_data' = RenderEditor(papers_data, current_file, po)
            /\ event' = [op |-> "batch", rejected |-> TRUE, pending |-> names]
       ELSE /\ papers_data' =
                RenderEditor(BatchLoop(papers_data, names, use_mock_data, outcome), current_file, po)
            /\ event' = [op |-> "batch", rejected |-> FALSE, pending |-> names,
                         use_mock_data |-> use_mock_data, outcome |-> outcome]
    /\ UNCHANGED <<papers_keys, current_file, word_buffer, clicks, session_state>>

(* ------------------------------------------------------------------ *)
(* Sidebar 3: navigation                                               *)
(* ------------------------------------------------------------------ *)
Navigate(fname, po) ==
    /\ fname \in Range(papers_keys)
    /\ current_file' = Some(fname)
    /\ papers_data' = RenderEditor(papers_data, current_file', po)
    /\ event' = [op |-> "nav", file |-> fname]
    /\ UNCHANGED <<papers_keys, word_buffer, clicks, session_state>>


(* ------------------------------------------------------------------ *)
(* Tab 1: the editor                                                   *)
(* ------------------------------------------------------------------ *)

(* dict.get(key, default) *)
Get(d, key, default) == IF key \in DOMAIN d THEN d[key] ELSE default

(* the list shown by the editor: at least one (empty) entry *)
EditorList(list) == IF list = << >> THEN << << >> >> ELSE list

NumStr(i) == <<"1", "2", "3", "4", "5">>[i]

(* What the reviewer does with the form: "keep" leaves every widget at *)
(* its pre-filled value, a text of EditTexts retypes every widget.     *)
Pens == {"keep"} \cup EditTexts

(* the values of the widgets when the save button is clicked *)
Form(data, pen) ==
    LET conclusions == EditorList(Normalize(Get(data, "conclusion", << >>)))
        formulas    == EditorList(Normalize(Get(data, "formulas", << >>)))
    IN  IF pen = "keep"
        THEN [new_title       |-> Get(data, "title", << >>),
              new_purpose     |-> Get(data, "purpose", << >>),
              new_conclusions |-> conclusions,
              new_params      |-> Get(data, "params", << >>),
              new_formulas    |-> formulas,
              new_comments    |-> Get(data, "comments", << >>),
              new_why         |-> Get(data, "why", << >>)]
        ELSE [new_title       |-> <<pen, "title">>,
              new_purpose     |-> <<pen, "purpose">>,
              new_conclusions |-> [i \in 1..Len(conclusions) |-> <<pen, "conclusion", NumStr(i)>>],
              new_params      |-> <<pen, "params">>,
              new_formulas    |-> [i \in 1..Len(formulas) |-> <<pen, "formula", NumStr(i)>>],
              new_comments    |-> <<pen, "comments">>,
              new_why         |-> <<pen, "why">>]

(* the dict the save handler stores *)
SavedData(form) ==
    [title      |-> form.new_title,
     purpose    |-> form.new_purpose,
     conclusion |-> form.new_conclusions,
     params     |-> form.new_params,
     formulas   |-> form.new_formulas,
     comments   |-> form.new_comments,
     why        |-> form.new_why]

(* faulty variant: a record already reviewed keeps its first saved fields *)
SaveRecord_FirstWins(info, form) ==
    IF info.status = Reviewed THEN info
    ELSE [info EXCEPT !.extracted_data = Some(SavedData(form)),
                      !.status = Reviewed]

(* faulty variant: a save starts the record afresh, without its image *)
SaveRecord_ResetImage(info, form) ==
    [info EXCEPT !.extracted_data = Some(SavedData(form)),
                 !.status = Reviewed,
                 !.selected_image = None]

(* faulty variant: a save empties the error_log of the record *)
SaveRecord_ClearLog(info, form) ==
    [info EXCEPT !.extracted_data = Some(SavedData(form)),
                 !.status = Reviewed,
                 !.error_log = << >>]

(* the record after "save and mark reviewed" *)
SaveRecord(info, form) ==
    [info EXCEPT !.extracted_data = Some(SavedData(form)),
                 !.status = Reviewed]

(* faulty variant: the save handler leaves the cached report in place *)
SaveWordBuffer_Keep(buffer) == buffer

(* the value of word_buffer after a save *)
SaveWordBuffer(buffer) == None

(* the save button is rendered *)
SaveVisible == EditorOpen(papers_data, current_file)

Commit(pen, po) ==
    /\ SaveVisible
    /\ LET fname == current_file[1]
           form  == Form(papers_data[fname].extracted_data[1], pen)
       IN  /\ papers_data' =
                 RenderEditor([papers_data EXCEPT ![fname] = SaveRecord(@, form)], current_file, po)
           /\ event' = [op |-> "commit", file |-> fname, form |-> form,
                        was |-> papers_data[fname].status, had_report |-> word_buffer # None]
    /\ word_buffer' = SaveWordBuffer(word_buffer)
    /\ clicks' = clicks + 1
    /\ UNCHANGED <<papers_keys, current_file, session_state>>

(* the crop button is rendered: pages are loaded and a page image shown *)
CropVisible ==
    /\ EditorOpen(papers_data, current_file)
    /\ get_page_count(papers_data[current_file[1]].pages) > 0

(* faulty variant: a record that has an image keeps it *)
Bind_KeepFirst(cropped) ==
    /\ CropVisible
    /\ papers_data' = [papers_data EXCEPT ![current_file[1]].selected_image =
                                            IF @ # None THEN @ ELSE cropped]
    /\ event' = [op |-> "bind", file |-> current_file[1], cropped |-> cropped,
                 had |-> papers_data[current_file[1]].selected_image]
    /\ clicks' = clicks + 1
    /\ UNCHANGED <<papers_keys, current_file, word_buffer, session_state>>

(* "confirm crop and use": cropped is what the cropper returned in this *)
(* run, an image, or None from simple_crop without its own button       *)
Bind(cropped) ==
    /\ CropVisible
    /\ papers_data' = [papers_data EXCEPT ![current_file[1]].selected_image = cropped]
    /\ event' = [op |-> "bind", file |-> current_file[1], cropped |-> cropped,
                 had |-> papers_data[current_file[1]].selected_image]
    /\ clicks' = clicks + 1
    /\ UNCHANGED <<papers_keys, current_file, word_buffer, session_state>>

(* "+ add conclusion" / "+ add formula": the local list is extended and *)
(* st.rerun() discards it                                               *)
AddRow(po) ==
    /\ SaveVisible
    /\ papers_data' = RenderEditor(papers_data, current_file, po)
    /\ event' = [op |-> "add_row", file |-> current_file[1]]
    /\ clicks' = clicks + 1
    /\ UNCHANGED <<papers_keys, current_file, word_buffer, session_state>>


(* ------------------------------------------------------------------ *)
(* utils/report_generator.py                                           *)
(* A document is the sequence of its block-level elements; a table is  *)
(* its rows, a row its five cells, a cell the sequence of its runs.    *)
(* ------------------------------------------------------------------ *)
Paragraph(text) == [kind |-> "paragraph", text |-> text]
Table(rows) == [kind |-> "table", rows |-> rows]
Run(text) == [kind |-> "text", text |-> text]
Picture(src) == [kind |-> "picture", src |-> src]

(* faulty variant: the generator of the previous click is kept and a *)
(* new report is written into its document                           *)
NewDocument_Reuse(now) ==
    IF word_buffer # None THEN word_buffer[1]
    ELSE << [kind |-> "heading", text |-> <<"SPE report">>],
            Paragraph(<<"generated: ", now>>),
            Paragraph(<<"note">>),
            Paragraph(<< >>) >>

(* WordReportGenerator.__init__: the title block *)
NewDocument(now) ==
    << [kind |-> "heading", text |-> <<"SPE report">>],
       Paragraph(<<"generated: ", now>>),
       Paragraph(<<"note">>),
       Paragraph(<< >>) >>

headers ==
    << <<"Article">>, <<"content (1): purpose and conclusions">>,
       <<"content (2): parameters and formulas">>, <<"Comments">>, <<"Why">> >>

HeaderRow == [i \in 1..Len(headers) |-> << Run(headers[i]) >>]

(* formulas matplotlib cannot draw: _render_latex_to_image returns None *)
Unrenderable == {<< >>, <<"e1">>}
_render_latex_to_image(formula) == IF formula \in Unrenderable THEN None ELSE Some(formula)

(* faulty variant: the conclusion loop walks the list backwards *)
ConclusionRuns_Reversed(conclusions) ==
    [j \in 1..(2 * Len(conclusions)) |->
        IF j % 2 = 1 THEN Run(<<"(", NumStr((j + 1) \div 2), ") ">>)
        ELSE Run(conclusions[Len(conclusions) + 1 - (j \div 2)] \o <<"\n">>)]

(* the runs "(idx) " and "point\n" of the conclusion loop *)
ConclusionRuns(conclusions) ==
    [j \in 1..(2 * Len(conclusions)) |->
        IF j % 2 = 1 THEN Run(<<"(", NumStr((j + 1) \div 2), ") ">>)
        ELSE Run(conclusions[j \div 2] \o <<"\n">>)]

(* column 2: source pages, purpose, numbered conclusions *)
PurposeCell(data) ==
    (IF "page_source" \in DOMAIN data /\ data.page_source # << >>
     THEN << Run(<<"[source: page ">> \o data.page_source \o <<"]\n">>) >> ELSE << >>)
    \o << Run(<<"\n1. purpose:\n">>), Run(Get(data, "purpose", <<"N/A">>)),
          Run(<<"\n\n2. conclusions:\n">>) >>
    \o ConclusionRuns(Normalize(Get(data, "conclusion", << >>)))

(* rendered formulas python-docx cannot embed: add_picture raises *)
UnembeddableFormulas == {<<"mock_f2">>}

(* faulty variant: a formula that cannot be drawn is left out *)
FormulaRun_DropFailed(formula) ==
    LET formula_img == _render_latex_to_image(formula) IN
    IF formula_img # None /\ formula_img[1] \notin UnembeddableFormulas
    THEN Picture(formula_img[1])
    ELSE Run(<<"\n">>)

(* one formula: a picture, or its source text when rendering or      *)
(* embedding fails                                                   *)
FormulaRun(formula) ==
    LET formula_img == _render_latex_to_image(formula) IN
    IF formula_img # None
    THEN IF formula_img[1] \notin UnembeddableFormulas
         THEN Picture(formula_img[1])
         ELSE Run(formula)
    ELSE Run(<<"\n">> \o formula \o <<"\n">>)

(* images python-docx cannot embed: add_picture raises *)
Unembeddable == {"img2"}

(* the bound figure: a picture, or an error text when embedding fails *)
ImageRun(image) ==
    IF image \in Unembeddable THEN Run(<<"[image load failed]">>) ELSE Picture(<<"figure", image>>)

(* column 3: parameters, formulas, bound figure *)
ParamsCell(data, image_stream) ==
    << Run(<<"1. parameters:\n">>), Run(Get(data, "params", <<"N/A">>)) >>
    \o (IF "formulas" \in DOMAIN data /\ data.formulas # << >>
        THEN << Run(<<"\n\n2. formulas:\n">>) >>
             \o [i \in 1..Len(Normalize(data.formulas)) |->
                    FormulaRun(Normalize(data.formulas)[i])]
        ELSE << >>)
    \o (IF image_stream # None
        THEN << Run(<<"\n\n3. figure:\n">>), ImageRun(image_stream[1]) >>
        ELSE << >>)

DataRow(data, image_stream) ==
    << << Run(Get(data, "title", <<"N/A">>)) >>,
       PurposeCell(data),
       ParamsCell(data, image_stream),
       << Run(<<"Comments:\n">>), Run(Get(data, "comments", <<"N/A">>)) >>,
       << Run(<<"Why:\n">>), Run(Get(data, "why", Get(data, "tags", <<"N/A">>))) >> >>

(* WordReportGenerator.add_paper_analysis: a separator paragraph and a *)
(* table of its own, header row and data row, for every paper          *)
add_paper_analysis(document, data, image_stream) ==
    document \o << Paragraph(<<"-----">>), Table(<< HeaderRow, DataRow(data, image_stream) >>) >>

(* ------------------------------------------------------------------ *)
(* Tab 2: report preview and generation                                *)
(* ------------------------------------------------------------------ *)
(* faulty variant: the report takes every extracted record, reviewed or not *)
reviewed_papers_extracted(keys, data) == SelectSeq(keys, LAMBDA name : data[name].status # Pending)

reviewed_papers(keys, data) == SelectSeq(keys, LAMBDA name : data[name].status = Reviewed)

RECURSIVE GenerateLoop(_, _, _)
GenerateLoop(document, data, names) ==
    IF names = << >> THEN document
    ELSE LET p == data[Head(names)] IN
         GenerateLoop(add_paper_analysis(document, p.extracted_data[1], p.selected_image),
                      data, Tail(names))

(* the generate button is rendered *)
GenerateVisible == reviewed_papers(papers_keys, papers_data) # << >>

(* the download button is rendered *)
DownloadVisible == word_buffer # None

(* faulty variant: the handler takes the bound image out of a record *)
(* once it has been written into the report                          *)
Generate_Consuming(now, po) ==
    /\ GenerateVisible
    /\ LET rendered == RenderEditor(papers_data, current_file, po) IN
       /\ word_buffer' = Some(GenerateLoop(NewDocument(now), rendered,
                                           reviewed_papers(papers_keys, rendered)))
       /\ papers_data' = [f \in DOMAIN rendered |->
                            IF rendered[f].status = Reviewed
                            THEN [rendered[f] EXCEPT !.selected_image = None]
                            ELSE rendered[f]]
    /\ event' = [op |-> "generate", again |-> word_buffer # None]
    /\ clicks' = clicks + 1
    /\ UNCHANGED <<papers_keys, current_file, session_state>>

Generate(now, po) ==
    /\ GenerateVisible
    /\ papers_data' = RenderEditor(papers_data, current_file, po)
    /\ word_buffer' = Some(GenerateLoop(NewDocument(now), papers_data',
                                        reviewed_papers(papers_keys, papers_data')))
    /\ event' = [op |-> "generate", again |-> word_buffer # None]
    /\ clicks' = clicks + 1
    /\ UNCHANGED <<papers_keys, current_file, session_state>>

(* ------------------------------------------------------------------ *)
(* A session with two papers: every handler, the reviewer's inputs in  *)
(* full, the library and API outcomes that change what is stored.      *)
Next ==
    \/ \E uploaded_files \in UploadLists, po \in Reloads : Upload(uploaded_files, po)
    \/ \E api_key \in BOOLEAN, use_mock_data \in BOOLEAN, po \in Reloads :
         \E outcome \in [Range(pending_files(papers_keys, papers_data)) ->
                            FileOutcomes(use_mock_data, {"ok", "fail_open"}, {ApiOk, ApiDown})] :
            BatchExtract(api_key, use_mock_data, outcome, po)
    \/ \E fname \in Files, po \in Reloads : Navigate(fname, po)
    \/ clicks < MaxClicks /\ \E pen \in Pens, po \in Reloads : Commit(pen, po)
    \/ clicks < MaxClicks /\ \E cropped \in {None} \cup {Some(i) : i \in Images} : Bind(cropped)
    \/ clicks < MaxClicks /\ \E po \in Reloads : AddRow(po)
    \/ clicks < MaxClicks /\ \E now \in Times, po \in Reloads : Generate(now, po)

Spec == Init /\ [][Next]_vars

(* A session that uploads three papers at once: every handler, every   *)
(* outcome of the PDF libraries and of the API for each paper of the   *)
(* batch, a short review afterwards.                                   *)
NextBatch ==
    \/ \E uploaded_files \in BatchUploadLists, po \in Reloads : Upload(uploaded_files, po)
    \/ \E api_key \in BOOLEAN, use_mock_data \in BOOLEAN, po \in Reloads :
         \E outcome \in [Range(pending_files(papers_keys, papers_data)) ->
                            FileOutcomes(use_mock_data, PdfOutcomes, ApiBehaviours)] :
            BatchExtract(api_key, use_mock_data, outcome, po)
    \/ \E fname \in Files, po \in Reloads : Navigate(fname, po)
    \/ clicks < MaxBatchClicks /\ \E po \in Reloads : Commit("A", po)
    \/ clicks < MaxBatchClicks /\ Bind(Some("img1"))
    \/ clicks < MaxBatchClicks /\ \E po \in Reloads : AddRow(po)
    \/ clicks < MaxBatchClicks /\ \E po \in Reloads : Generate("t1", po)

SpecBatch == Init /\ [][NextBatch]_vars

(* ------------------------------------------------------------------ *)
(* The report generator on its own: WordReportGenerator() followed by  *)
(* add_paper_analysis for each reviewed record and save_to_bytes(), on *)
(* every store of at most two records the session can have built.      *)

(* the fields a record can hold after extraction *)
ExtractedDatas(f) ==
    {[get_mock_structured_data EXCEPT !.title = <<"mock: ", f>>],
     extract_structured_data(ApiOk).data,
     extract_structured_data(ApiDown).data}

(* the records the session can hold for file f *)
StoreRecords(f) ==
    {NewRecord(f)}
    \cup {[NewRecord(f) EXCEPT !.extracted_data = Some(d), !.status = Extracted] :
             d \in ExtractedDatas(f)}
    \cup {[SaveRecord(NewRecord(f), Form(d, pen)) EXCEPT !.selected_image = img] :
             d \in ExtractedDatas(f), pen \in Pens,
             img \in {None} \cup {Some(i) : i \in Images}}

InitReport ==
    /\ papers_keys \in {<< >>} \cup UploadLists
    /\ papers_data \in [Range(papers_keys) -> UNION {StoreRecords(f) : f \in Files}]
    /\ \A f \in Range(papers_keys) : papers_data[f] \in StoreRecords(f)
    /\ current_file = None
    /\ word_buffer = None
    /\ event = [op |-> "start"]
    /\ clicks = 0
    /\ session_state = init_session_state

(* the body of the generate handler, without the gate of the tab *)
AssembleReport(now) ==
    /\ word_buffer' = Some(GenerateLoop(NewDocument(now), papers_data,
                                        reviewed_papers(papers_keys, papers_data)))
    /\ event' = [op |-> "assemble"]
    /\ UNCHANGED <<papers_keys, papers_data, current_file, clicks, session_state>>

NextReport == \E now \in Times : AssembleReport(now)

SpecReport == InitReport /\ [][NextReport]_vars

(* ------------------------------------------------------------------ *)
(* The batch handler statement by statement.  event holds the loop's   *)
(* position: the queue pending_files, the index k of the record being  *)
(* processed and the statement pc reached in the try/except block.     *)

(* the store right after three files were uploaded *)
InitSteps ==
    LET up == UploadLoop(<< >>, << >>, <<"a.pdf", "b.pdf", "c.pdf">>) IN
    /\ papers_keys = up.keys
    /\ papers_data = up.data
    /\ current_file = None
    /\ word_buffer = None
    /\ event = [op |-> "upload", files |-> <<"a.pdf", "b.pdf", "c.pdf">>]
    /\ clicks = 0
    /\ session_state = init_session_state

Running == event.op = "batch_run"
Current == event.pending[event.k]
TryCurrent == TryExtract(papers_data[Current], Current, event.use_mock_data, event.outcome[Current])

(* the loop moves on: the next record, or the end of the queue *)
Advance == [event EXCEPT !.k = @ + 1, !.pc = IF event.k = Len(event.pending) THEN "done" ELSE "pdf"]

(* the button is clicked with a key or in mock mode: the loop starts *)
BatchBegin(use_mock_data, outcome) ==
    /\ event.op = "upload"
    /\ pending_files(papers_keys, papers_data) # << >>
    /\ event' = [op |-> "batch_run", pending |-> pending_files(papers_keys, papers_data),
                 k |-> 1, pc |-> "pdf", use_mock_data |-> use_mock_data, outcome |-> outcome]
    /\ UNCHANGED <<papers_keys, papers_data, current_file, word_buffer, clicks, session_state>>

(* success = info['pdf_processor'].process_pdf(info['file_obj']) *)
StepProcessPdf ==
    /\ Running /\ event.pc = "pdf"
    /\ papers_data' = [papers_data EXCEPT ![Current].pages = TryCurrent.pages]
    /\ event' = [event EXCEPT !.pc = IF event.outcome[Current].pdf = "ok" THEN "extract" ELSE "log"]
    /\ UNCHANGED <<papers_keys, current_file, word_buffer, clicks, session_state>>

(* the text loop and the adapter call (or the mock data) *)
StepExtract ==
    /\ Running /\ event.pc = "extract"
    /\ event' = [event EXCEPT !.pc = IF TryCurrent.raised THEN "log" ELSE "store"]
    /\ UNCHANGED <<papers_keys, papers_data, current_file, word_buffer, clicks, session_state>>

(* info['extracted_data'] = data *)
StepStoreData ==
    /\ Running /\ event.pc = "store"
    /\ papers_data' = [papers_data EXCEPT ![Current].extracted_data = Some(TryCurrent.data)]
    /\ event' = [event EXCEPT !.pc = "status"]
    /\ UNCHANGED <<papers_keys, current_file, word_buffer, clicks, session_state>>

(* info['status'] = "已提取" *)
StepSetStatus ==
    /\ Running /\ event.pc = "status"
    /\ papers_data' = [papers_data EXCEPT ![Current].status = Extracted]
    /\ event' = Advance
    /\ UNCHANGED <<papers_keys, current_file, word_buffer, clicks, session_state>>

(* except: info['error_log'].append(error_msg) *)
StepLogError ==
    /\ Running /\ event.pc = "log"
    /\ papers_data' = [papers_data EXCEPT ![Current].error_log =
                            Append(@, <<Current, " extract failed: ">> \o TryCurrent.msg)]
    /\ event' = [event EXCEPT !.pc = "fb_data"]
    /\ UNCHANGED <<papers_keys, current_file, word_buffer, clicks, session_state>>

(* except: info['extracted_data'] = the mock data with a fallback title *)
StepFallbackData ==
    /\ Running /\ event.pc = "fb_data"
    /\ papers_data' = [papers_data EXCEPT ![Current].extracted_data =
                            Some([get_mock_structured_data EXCEPT !.title = <<"fallback: ", Current>>])]
    /\ event' = [event EXCEPT !.pc = "fb_status"]
    /\ UNCHANGED <<papers_keys, current_file, word_buffer, clicks, session_state>>

(* faulty variant: the loop moves on before the status is set *)
StepFallbackStatus_Skipped ==
    /\ Running /\ event.pc = "fb_status"
    /\ event' = Advance
    /\ UNCHANGED <<papers_keys, papers_data, current_file, word_buffer, clicks, session_state>>

(* except: info['status'] = "已提取(后备)" *)
StepFallbackStatus ==
    /\ Running /\ event.pc = "fb_status"
    /\ papers_data' = [papers_data EXCEPT ![Current].status = ExtractedFallback]
    /\ event' = Advance
    /\ UNCHANGED <<papers_keys, current_file, word_buffer, clicks, session_state>>

(* the loop is over: st.rerun() *)
BatchFinish ==
    /\ Running /\ event.pc = "done"
    /\ event' = [op |-> "batch", rejected |-> FALSE, pending |-> event.pending,
                 use_mock_data |-> event.use_mock_data, outcome |-> event.outcome]
    /\ UNCHANGED <<papers_keys, papers_data, current_file, word_buffer, clicks, session_state>>

NextSteps ==
    \/ \E use_mock_data \in BOOLEAN :
         \E outcome \in [Range(pending_files(papers_keys, papers_data)) ->
                            FileOutcomes(use_mock_data, PdfOutcomes, ApiBehaviours)] :
            BatchBegin(use_mock_data, outcome)
    \/ StepProcessPdf
    \/ StepExtract
    \/ StepStoreData
    \/ StepSetStatus
    \/ StepLogError
    \/ StepFallbackData
    \/ StepFallbackStatus
    \/ BatchFinish

SpecSteps == InitSteps /\ [][NextSteps]_vars

(* ------------------------------------------------------------------ *)
(* Page images: PDFProcessor.get_page_as_image and the cropper's       *)
(* extract_pdf_page_as_image, called on a loaded document              *)
(* ------------------------------------------------------------------ *)

(* the longest document explored *)
MaxPages == 5

(* the text pdfplumber extracts from page i of a document *)
PageText(i) == <<"page", <<"p1", "p2", "p3", "p4", "p5", "p6", "p7", "p8">>[i]>>

(* documents of 0..MaxPages pages; a page has its text or none *)
Documents ==
    UNION {[1..n -> BOOLEAN] : n \in 0..MaxPages}

DocumentPages(doc) == [i \in DOMAIN doc |-> IF doc[i] THEN PageText(i) ELSE << >>]

(* page numbers a caller can pass, valid or not *)
PageArguments == (0 - 1)..(MaxPages + 1)

(* how page.to_image() can end *)
Renderings == {"ok", "no_to_image", "raises"}

(* how Image.open can end *)
Openings == {"ok", "raises"}

(* faulty variant: the page number is taken as 0-indexed *)
get_page_as_image_ZeroBased(pages, page_num, rendering) ==
    IF pages = << >> \/ page_num < 0 \/ page_num >= Len(pages) THEN None
    ELSE IF rendering = "ok"
         THEN Some([page |-> page_num, data |-> <<"png">> \o pages[page_num + 1]])
         ELSE None

(* PDFProcessor.get_page_as_image: None or the dict of the page image *)
get_page_as_image(pages, page_num, rendering) ==
    IF pages = << >> \/ page_num < 1 \/ page_num > Len(pages) THEN None
    ELSE IF rendering = "ok"
         THEN Some([page |-> page_num, data |-> <<"png">> \o pages[page_num]])
         ELSE None

(* ImageCropper.extract_pdf_page_as_image: None or the PIL image *)
extract_pdf_page_as_image(pages, page_num, rendering, opening) ==
    LET page_image_data == get_page_as_image(pages, page_num, rendering) IN
    IF page_image_data # None /\ opening = "ok"
    THEN Some(<<"image">> \o page_image_data[1].data)
    ELSE None

(* a session with one extracted paper whose document is loaded *)
InitPages ==
    /\ papers_keys = <<"a.pdf">>
    /\ \E doc \in Documents :
          papers_data = [f \in {"a.pdf"} |->
                            [NewRecord(f) EXCEPT !.pages = DocumentPages(doc),
                                                 !.extracted_data = Some(get_mock_structured_data),
                                                 !.status = Extracted]]
    /\ current_file = Some("a.pdf")
    /\ word_buffer = None
    /\ event = [op |-> "start"]
    /\ clicks = 0
    /\ session_state = init_session_state

(* a call of the adapter *)
GetPageAsImage(page_num, rendering) ==
    /\ event' = [op |-> "get_page_as_image", page_num |-> page_num, rendering |-> rendering,
                 result |-> get_page_as_image(papers_data["a.pdf"].pages, page_num, rendering)]
    /\ UNCHANGED <<papers_keys, papers_data, current_file, word_buffer, clicks, session_state>>

(* a call of the cropper's wrapper *)
ExtractPdfPageAsImage(page_num, rendering, opening) ==
    /\ event' = [op |-> "extract_pdf_page_as_image", page_num |-> page_num,
                 rendering |-> rendering, opening |-> opening,
                 result |-> extract_pdf_page_as_image(papers_data["a.pdf"].pages, page_num,
                                                      rendering, opening)]
    /\ UNCHANGED <<papers_keys, papers_data, current_file, word_buffer, clicks, session_state>>

NextPages ==
    \/ \E page_num \in PageArguments, rendering \in Renderings :
          GetPageAsImage(page_num, rendering)
    \/ \E page_num \in PageArguments, rendering \in Renderings, opening \in Openings :
          ExtractPdfPageAsImage(page_num, rendering, opening)

SpecPages == InitPages /\ [][NextPages]_vars

(* ------------------------------------------------------------------ *)
(* The slider cropper: ImageCropper.simple_crop on a page image        *)
(* ------------------------------------------------------------------ *)

(* the longest side, in pixels, of the page images explored *)
MaxSide == 3

Max(a, b) == IF a > b THEN a ELSE b

(* PIL's Image.crop: the new image has the size of the box *)
crop(box) == [box |-> box, size |-> <<box[3] - box[1], box[4] - box[2]>>]

(* ImageCropper.simple_crop: the four sliders in the order they are    *)
(* read, and the confirm button; the second assignment reads the x1,   *)
(* y1 the first one wrote                                              *)
simple_crop(left, top, right, bottom, confirm) ==
    LET x1 == Min(left, right)
        y1 == Min(top, bottom)
        x2 == Max(x1, right)
        y2 == Max(y1, bottom)
    IN  IF confirm THEN Some(crop(<<x1, y1, x2, y2>>)) ELSE None

(* a page image of some size is shown to the reviewer *)
InitCrop ==
    /\ papers_keys = <<"a.pdf">>
    /\ papers_data = [f \in {"a.pdf"} |->
                         [NewRecord(f) EXCEPT !.pages = FilePages(f),
                                              !.extracted_data = Some(get_mock_structured_data),
                                              !.status = Extracted]]
    /\ current_file = Some("a.pdf")
    /\ word_buffer = None
    /\ \E img_width \in 1..MaxSide, img_height \in 1..MaxSide :
          event = [op |-> "page_image", size |-> <<img_width, img_height>>]
    /\ clicks = 0
    /\ session_state = init_session_state

(* one script run of the cropper: slider positions and the button *)
SimpleCrop(left, top, right, bottom, confirm) ==
    /\ event' = [op |-> "simple_crop", size |-> event.size,
                 left |-> left, top |-> top, right |-> right, bottom |-> bottom,
                 confirm |-> confirm,
                 result |-> simple_crop(left, top, right, bottom, confirm)]
    /\ UNCHANGED <<papers_keys, papers_data, current_file, word_buffer, clicks, session_state>>

NextCrop ==
    \E left \in 0..event.size[1], right \in 0..event.size[1],
       top \in 0..event.size[2], bottom \in 0..event.size[2], confirm \in BOOLEAN :
          SimpleCrop(left, top, right, bottom, confirm)

SpecCrop == InitCrop /\ [][NextCrop]_vars

(* ------------------------------------------------------------------ *)
(* The text of a loaded document: the text loop of the batch handler   *)
(* and PDFProcessor.extract_text_by_page                               *)
(* ------------------------------------------------------------------ *)

(* a session with one paper whose document process_pdf has loaded *)
InitText ==
    /\ papers_keys = <<"a.pdf">>
    /\ \E doc \in Documents :
          papers_data = [f \in {"a.pdf"} |-> [NewRecord(f) EXCEPT !.pages = DocumentPages(doc)]]
    /\ current_file = None
    /\ word_buffer = None
    /\ event = [op |-> "process_pdf"]
    /\ clicks = 0
    /\ session_state = init_session_state

(* text = "" and the for loop over the first pages *)
ReadFirstPages ==
    /\ event' = [op |-> "read_text",
                 read |-> FirstPagesRead(papers_data["a.pdf"].pages),
                 text |-> FirstPagesText(papers_data["a.pdf"].pages)]
    /\ UNCHANGED <<papers_keys, papers_data, current_file, word_buffer, clicks, session_state>>

(* one call of extract_text_by_page *)
ExtractTextByPage(page_num) ==
    /\ event' = [op |-> "extract_text_by_page", page_num |-> page_num,
                 text |-> extract_text_by_page(papers_data["a.pdf"].pages, page_num)]
    /\ UNCHANGED <<papers_keys, papers_data, current_file, word_buffer, clicks, session_state>>

NextText ==
    \/ ReadFirstPages
    \/ \E page_num \in PageArguments : ExtractTextByPage(page_num)

SpecText == InitText /\ [][NextText]_vars

(* ------------------------------------------------------------------ *)
(* AIExtractor.extract_with_retry, attempt by attempt.  event holds    *)
(* the call: max_retries, what the API does at each attempt, the loop  *)
(* variable, the calls of extract_from_text made so far, the seconds   *)
(* slept and, once the function has returned, its result.              *)
(* ------------------------------------------------------------------ *)

(* the largest max_retries explored *)
MaxRetries == 3

RECURSIVE Pow2(_)
Pow2(n) == IF n = 0 THEN 1 ELSE 2 * Pow2(n - 1)

(* the dict returned after the loop *)
FailedResult(max_retries, last_error) ==
    [error      |-> <<"extraction failed, last error: ">> \o last_error,
     summary    |-> << >>,
     parameters |-> << >>,
     equations  |-> << >>,
     figures    |-> << >>,
     metadata   |-> [role |-> "researcher", extraction_mode |-> "standard",
                     model |-> "model", failed |-> TRUE]]

InitRetry ==
    /\ papers_keys = << >>
    /\ papers_data = << >>
    /\ current_file = None
    /\ word_buffer = None
    /\ event = [op |-> "start"]
    /\ clicks = 0
    /\ session_state = init_session_state

(* the call: last_error = None and the loop is entered *)
RetryBegin(max_retries, apis) ==
    /\ event.op = "start"
    /\ event' = [op |-> "extract_with_retry", max_retries |-> max_retries, apis |-> apis,
                 attempt |-> 0, calls |-> 0, slept |-> 0, last_error |-> <<"None">>,
                 pc |-> "loop", result |-> None]
    /\ UNCHANGED <<papers_keys, papers_data, current_file, word_buffer, clicks, session_state>>

(* faulty variant: a successful attempt does not leave the loop *)
RetryAttempt_KeepGoing ==
    /\ event.op = "extract_with_retry" /\ event.pc = "loop"
    /\ event.attempt < event.max_retries
    /\ LET r == extract_from_text(event.apis[event.attempt + 1]) IN
       IF ~r.raised
       THEN event' = [event EXCEPT !.calls = @ + 1, !.attempt = @ + 1, !.result = Some(r)]
       ELSE event' = [event EXCEPT !.calls = @ + 1, !.last_error = r.msg,
                                   !.slept = @ + Pow2(event.attempt), !.attempt = @ + 1]
    /\ UNCHANGED <<papers_keys, papers_data, current_file, word_buffer, clicks, session_state>>

(* one iteration: return self.extract_from_text(...), or the except    *)
(* branch with its sleep                                               *)
RetryAttempt ==
    /\ event.op = "extract_with_retry" /\ event.pc = "loop"
    /\ event.attempt < event.max_retries
    /\ LET r == extract_from_text(event.apis[event.attempt + 1]) IN
       IF ~r.raised
       THEN event' = [event EXCEPT !.calls = @ + 1, !.pc = "returned", !.result = Some(r)]
       ELSE event' = [event EXCEPT !.calls = @ + 1, !.last_error = r.msg,
                                   !.slept = @ + Pow2(event.attempt), !.attempt = @ + 1]
    /\ UNCHANGED <<papers_keys, papers_data, current_file, word_buffer, clicks, session_state>>

(* the loop is exhausted: the error dict is returned *)
RetryGiveUp ==
    /\ event.op = "extract_with_retry" /\ event.pc = "loop"
    /\ event.attempt >= event.max_retries
    /\ event' = [event EXCEPT !.pc = "returned",
                              !.result = Some(FailedResult(event.max_retries, event.last_error))]
    /\ UNCHANGED <<papers_keys, papers_data, current_file, word_buffer, clicks, session_state>>

NextRetry ==
    \/ \E max_retries \in 0..MaxRetries :
         \E apis \in [1..max_retries -> ApiBehaviours] : RetryBegin(max_retries, apis)
    \/ RetryAttempt
    \/ RetryGiveUp

(* a call that has started keeps running: nothing else is scheduled *)
SpecRetry == InitRetry /\ [][NextRetry]_vars /\ WF_vars(NextRetry)

(* ------------------------------------------------------------------ *)
(* AIExtractor._split_text.  A text is its sequence of characters;     *)
(* "\n" is the only whitespace character of the texts explored.        *)
(* ------------------------------------------------------------------ *)

(* the longest text and the largest chunk_size explored *)
MaxTextLen == 5
MaxChunkSize == 3

Characters == {"a", "b", "\n"}

Texts == UNION {[1..n -> Characters] : n \in 0..MaxTextLen}

(* str.split('\n\n'): cur is the part read since the last separator *)
RECURSIVE split(_, _)
split(text, cur) ==
    IF text = << >> THEN <<cur>>
    ELSE IF Len(text) >= 2 /\ text[1] = "\n" /\ text[2] = "\n"
         THEN <<cur>> \o split(SubSeq(text, 3, Len(text)), << >>)
         ELSE split(Tail(text), Append(cur, Head(text)))

(* str.strip() *)
RECURSIVE strip(_)
strip(s) ==
    IF s = << >> THEN s
    ELSE IF Head(s) = "\n" THEN strip(Tail(s))
         ELSE IF s[Len(s)] = "\n" THEN strip(SubSeq(s, 1, Len(s) - 1))
              ELSE s

(* the for loop over the paragraphs and the final append *)
RECURSIVE SplitLoop(_, _, _, _)
SplitLoop(paragraphs, chunks, current_chunk, chunk_size) ==
    IF paragraphs = << >>
    THEN IF current_chunk # << >> THEN Append(chunks, strip(current_chunk)) ELSE chunks
    ELSE LET para == Head(paragraphs) IN
         IF Len(current_chunk) + Len(para) < chunk_size
         THEN SplitLoop(Tail(paragraphs), chunks, current_chunk \o para \o <<"\n", "\n">>, chunk_size)
         ELSE SplitLoop(Tail(paragraphs),
                        IF current_chunk # << >> THEN Append(chunks, strip(current_chunk)) ELSE chunks,
                        para \o <<"\n", "\n">>, chunk_size)

(* AIExtractor._split_text *)
_split_text(text, chunk_size) ==
    IF Len(text) <= chunk_size THEN <<text>>
    ELSE SplitLoop(split(text, << >>), << >>, << >>, chunk_size)

InitSplit ==
    /\ papers_keys = << >>
    /\ papers_data = << >>
    /\ current_file = None
    /\ word_buffer = None
    /\ event = [op |-> "start"]
    /\ clicks = 0
    /\ session_state = init_session_state

(* a call of _split_text *)
SplitText(text, chunk_size) ==
    /\ event' = [op |-> "_split_text", text |-> text, chunk_size |-> chunk_size,
                 chunks |-> _split_text(text, chunk_size)]
    /\ UNCHANGED <<papers_keys, papers_data, current_file, word_buffer, clicks, session_state>>

NextSplit == \E text \in Texts, chunk_size \in 1..MaxChunkSize : SplitText(text, chunk_size)

SpecSplit == InitSplit /\ [][NextSplit]_vars

(* ------------------------------------------------------------------ *)
(* app_v2.py, the single-paper workflow: one action per interaction.   *)
(* A cropped image is a new PIL object, written <<file, image>>.       *)
(* event.chosen records the crop the user last chose with the "use"    *)
(* button for the file now uploaded.                                   *)
(* ------------------------------------------------------------------ *)

(* the longest report list explored *)
MaxEntries == 2

V2Files == {"a.pdf", "b.pdf"}

(* the main interface shows the editor and the crop column *)
V2EditorOpen ==
    /\ session_state.uploaded_file # None
    /\ session_state.structured_data # None

(* list.pop(i), i counted from 0 *)
Pop(list, i) == SubSeq(list, 1, i) \o SubSeq(list, i + 2, Len(list))

(* the image the "add entry" handler reads through selected_image_index *)
SelectedImage(ss) ==
    IF /\ ss.selected_image_index # None
       /\ ss.selected_image_index[1] >= 0
       /\ ss.selected_image_index[1] < Len(ss.cropped_images)
    THEN Some(ss.cropped_images[ss.selected_image_index[1] + 1])
    ELSE None

(* the entry dict of the "add entry" handler, for an unedited form *)
Entry(data, selected_image) ==
    [title       |-> data.title,
     purpose     |-> data.purpose,
     conclusion  |-> Normalize(data.conclusion),
     params      |-> data.params,
     formulas    |-> Normalize(data.formulas),
     comments    |-> data.comments,
     why         |-> data.why,
     page_source |-> data.page_source,
     image       |-> selected_image]

InitV2 ==
    /\ papers_keys = << >>
    /\ papers_data = << >>
    /\ current_file = None
    /\ word_buffer = None
    /\ event = [op |-> "v2_start", chosen |-> None]
    /\ clicks = 0
    /\ session_state = init_session_state

(* the uploader holds a file other than the one of the session *)
V2Upload(uploaded_file, outcome) ==
    /\ Some(uploaded_file) # session_state.uploaded_file
    /\ session_state' = [session_state EXCEPT
                            !.uploaded_file = Some(uploaded_file),
                            !.structured_data = None,
                            !.cropped_images = << >>,
                            !.pages = process_pdf(@, uploaded_file, outcome).pages]
    /\ event' = [op |-> "v2_upload", file |-> uploaded_file, chosen |-> None]
    /\ UNCHANGED <<papers_keys, papers_data, current_file, word_buffer, clicks>>

(* "AI analysis": the first pages' text goes to the adapter; without   *)
(* text, or when the adapter raises, the mock data is stored           *)
V2Analyze(api) ==
    /\ session_state.uploaded_file # None
    /\ LET r == extract_structured_data(api) IN
       session_state' = [session_state EXCEPT !.structured_data =
                            IF session_state.pages = << >> \/ r.raised
                            THEN Some(get_mock_structured_data)
                            ELSE Some(r.data)]
    /\ event' = [op |-> "v2_analyze", chosen |-> event.chosen]
    /\ UNCHANGED <<papers_keys, papers_data, current_file, word_buffer, clicks>>

(* "add this image to the report": the crop of this run is appended *)
V2AddCrop(image) ==
    /\ V2EditorOpen
    /\ get_page_count(session_state.pages) > 0
    /\ LET cropped_image == <<session_state.uploaded_file[1], image>> IN
       /\ cropped_image \notin Range(session_state.cropped_images)
       /\ session_state' = [session_state EXCEPT !.cropped_images = Append(@, cropped_image)]
    /\ event' = [op |-> "v2_add_crop", chosen |-> event.chosen]
    /\ UNCHANGED <<papers_keys, papers_data, current_file, word_buffer, clicks>>

(* "use" next to crop i (counted from 0) *)
V2Use(i) ==
    /\ V2EditorOpen
    /\ i < Len(session_state.cropped_images)
    /\ session_state' = [session_state EXCEPT !.selected_image_index = Some(i)]
    /\ event' = [op |-> "v2_use", i |-> i, chosen |-> Some(session_state.cropped_images[i + 1])]
    /\ UNCHANGED <<papers_keys, papers_data, current_file, word_buffer, clicks>>

(* "delete" next to crop i (counted from 0) *)
V2DeleteCrop(i) ==
    /\ V2EditorOpen
    /\ i < Len(session_state.cropped_images)
    /\ session_state' = [session_state EXCEPT !.cropped_images = Pop(@, i)]
    /\ event' = [op |-> "v2_delete_crop", i |-> i,
                 chosen |-> IF event.chosen = Some(session_state.cropped_images[i + 1])
                            THEN None ELSE event.chosen]
    /\ UNCHANGED <<papers_keys, papers_data, current_file, word_buffer, clicks>>

(* "add this entry to the Word report" *)
V2AddEntry ==
    /\ V2EditorOpen
    /\ Len(session_state.analyzed_papers) < MaxEntries
    /\ session_state' = [session_state EXCEPT
                            !.analyzed_papers =
                                Append(@, Entry(session_state.structured_data[1],
                                                SelectedImage(session_state))),
                            !.selected_image_index = IF @ # None THEN Some(0 - 1) ELSE @]
    /\ event' = [op |-> "v2_add_entry", chose |-> event.chosen, chosen |-> None]
    /\ UNCHANGED <<papers_keys, papers_data, current_file, word_buffer, clicks>>

(* "delete" next to entry i of the list of added papers *)
V2DeleteEntry(i) ==
    /\ i < Len(session_state.analyzed_papers)
    /\ session_state' = [session_state EXCEPT !.analyzed_papers = Pop(@, i)]
    /\ event' = [op |-> "v2_delete_entry", i |-> i, chosen |-> event.chosen]
    /\ UNCHANGED <<papers_keys, papers_data, current_file, word_buffer, clicks>>

NextV2 ==
    \/ \E uploaded_file \in V2Files, outcome \in PdfOutcomes : V2Upload(uploaded_file, outcome)
    \/ \E api \in {ApiOk, ApiBadPage} : V2Analyze(api)
    \/ \E image \in Images : V2AddCrop(image)
    \/ \E i \in 0..(Cardinality(Images) - 1) : V2Use(i)
    \/ \E i \in 0..(Cardinality(Images) - 1) : V2DeleteCrop(i)
    \/ V2AddEntry
    \/ \E i \in 0..(MaxEntries - 1) : V2DeleteEntry(i)

SpecV2 == InitV2 /\ [][NextV2]_vars


(* ================================================================== *)
(* Properties                                                          *)
(* ================================================================== *)
Rank(status) ==
    CASE status = Pending -> 0
      [] status \in {Extracted, ExtractedFallback} -> 1
      [] OTHER -> 2

Stored(f) == papers_data[f]

(* the parts of a record other than the pages cache of its PDFProcessor *)
Core(info) == <<info.status, info.extracted_data, info.selected_image, info.error_log>>

(* C1: in every step and for every record of the store, the status is  *)
(* one of the four values and moves only forward along                 *)
(* Pending -> {Extracted, ExtractedFallback} -> Reviewed: never from   *)
(* Pending straight to Reviewed, never back, never sideways between    *)
(* Extracted and ExtractedFallback; and a record stays in the store.   *)
C1_StatusOnlyForward ==
    [][/\ \A f \in DOMAIN papers_data' : papers_data'[f].status \in Statuses
       /\ \A f \in DOMAIN papers_data :
            /\ f \in DOMAIN papers_data'
            /\ Rank(papers_data'[f].status) >= Rank(papers_data[f].status)
            /\ Rank(papers_data'[f].status) = Rank(papers_data[f].status)
                  => papers_data'[f].status = papers_data[f].status
            /\ ~(papers_data[f].status = Pending /\ papers_data'[f].status = Reviewed)]_vars

(* a record was just reviewed while another one holds fallback data and *)
(* the uploader still lists both files                                  *)
C1_Witness ==
    /\ event.op = "commit"
    /\ event.was = ExtractedFallback
    /\ \E g \in DOMAIN papers_data : g # event.file /\ Stored(g).status = Extracted

(* C5: between operations, a record's extracted_data is None exactly   *)
(* when its status is Pending.                                         *)
C5_FieldsNoneIffPending ==
    \A f \in DOMAIN papers_data :
        (Stored(f).extracted_data = None) <=> (Stored(f).status = Pending)

(* one record still waits for extraction, the other was extracted with *)
(* the fallback data                                                   *)
C5_Witness ==
    /\ \E f \in DOMAIN papers_data : Stored(f).status = Pending
    /\ \E f \in DOMAIN papers_data :
          Stored(f).status = ExtractedFallback /\ Stored(f).extracted_data # None


(* ------------------------- batch extraction ------------------------ *)

(* the batch that just ran, if the last interaction was one *)
BatchRan == event.op = "batch" /\ ~event.rejected

(* the adapter call of a record failed: the chat-completion call      *)
(* raised, or the adapter itself raised                               *)
AdapterFailed(o) ==
    /\ o.api # ApiNotCalled
    /\ ApiFailed(o.api) \/ extract_structured_data(o.api).raised

(* extraction of a record failed: its PDF could not be processed or   *)
(* its adapter call failed                                            *)
ExtractionFailed(o) == o.pdf # "ok" \/ AdapterFailed(o)

(* the deterministic placeholder of a record *)
Placeholder(f) ==
    [title       |-> <<"fallback: ", f>>,
     purpose     |-> <<"mock_purpose">>,
     conclusion  |-> << <<"mock_c1">>, <<"mock_c2">>, <<"mock_c3">> >>,
     params      |-> <<"mock_params">>,
     formulas    |-> << <<"mock_f1">>, <<"mock_f2">> >>,
     comments    |-> <<"mock_comments">>,
     why         |-> <<"mock_why">>,
     page_source |-> <<"4, 6, 8">>]

(* C2: a batch extraction that runs leaves no record of the batch     *)
(* Pending: every record that was Pending is Extracted or             *)
(* ExtractedFallback afterwards, whatever the PDF libraries and the   *)
(* adapter did.                                                       *)
C2_ExtractionLeavesPending ==
    [][(event'.op = "batch" /\ ~event'.rejected) =>
          \A f \in DOMAIN papers_data :
              papers_data[f].status = Pending
                 => papers_data'[f].status \in {Extracted, ExtractedFallback}]_vars

(* a batch of three in which the adapter raised for every record *)
C2_Witness ==
    /\ BatchRan
    /\ Len(event.pending) = 3
    /\ \A f \in Range(event.pending) :
          /\ event.outcome[f].api = ApiBadPage
          /\ Stored(f).status = ExtractedFallback

(* C3: after a batch, every record whose adapter call failed holds the *)
(* placeholder fields, has the failure message appended to its        *)
(* error_log and is ExtractedFallback.                                *)
C3_AdapterFailureFallsBack ==
    BatchRan =>
        \A f \in Range(event.pending) :
            AdapterFailed(event.outcome[f]) =>
                /\ Stored(f).status = ExtractedFallback
                /\ Stored(f).extracted_data = Some(Placeholder(f))
                /\ Len(Stored(f).error_log) = 1

(* C4: a batch processes all its records: afterwards every record on  *)
(* which extraction failed is ExtractedFallback with exactly one new  *)
(* error_log entry, every other record is Extracted with no new entry.*)
C4_BatchProcessesAll ==
    [][(event'.op = "batch" /\ ~event'.rejected) =>
          \A f \in Range(event'.pending) :
              IF ExtractionFailed(event'.outcome[f])
              THEN /\ papers_data'[f].status = ExtractedFallback
                   /\ Len(papers_data'[f].error_log) = Len(papers_data[f].error_log) + 1
              ELSE /\ papers_data'[f].status = Extracted
                   /\ papers_data'[f].error_log = papers_data[f].error_log]_vars


(* ----------------------------- review ------------------------------ *)

(* C6: a save stores exactly the submitted form and marks the record  *)
(* Reviewed, from Extracted, ExtractedFallback and Reviewed alike:    *)
(* every field of the record equals the value submitted with this     *)
(* save, whatever an earlier save had stored.                         *)
C6_CommitOverwrites ==
    [][event'.op = "commit" =>
          LET f    == event'.file
              form == event'.form
              d    == papers_data'[f].extracted_data
          IN  /\ papers_data[f].status \in {Extracted, ExtractedFallback, Reviewed}
              /\ papers_data'[f].status = Reviewed
              /\ d # None
              /\ DOMAIN d[1] = {"title", "purpose", "conclusion", "params",
                                "formulas", "comments", "why"}
              /\ d[1].title = form.new_title
              /\ d[1].purpose = form.new_purpose
              /\ d[1].conclusion = form.new_conclusions
              /\ d[1].params = form.new_params
              /\ d[1].formulas = form.new_formulas
              /\ d[1].comments = form.new_comments
              /\ d[1].why = form.new_why]_vars

(* a second save on a record already Reviewed, with fields retyped as *)
(* "B" over the ones an earlier save had stored                       *)
C6_Witness ==
    /\ event.op = "commit"
    /\ event.was = Reviewed
    /\ event.form.new_title = <<"B", "title">>
    /\ Stored(event.file).extracted_data[1].title = <<"B", "title">>
    /\ Stored(event.file).status = Reviewed

(* C7: every save clears the cached report, and a cleared report      *)
(* comes back only through the generate button: after a save nothing  *)
(* can be downloaded until the report is generated again.             *)
C7_CommitClearsReport ==
    [][/\ event'.op = "commit" => word_buffer' = None
       /\ (word_buffer = None /\ word_buffer' # None) => event'.op = "generate"]_vars

(* a save that discarded a report generated earlier *)
C7_Witness ==
    /\ event.op = "commit"
    /\ event.had_report
    /\ ~DownloadVisible

(* C8: the handlers act only on records in a legal status.  A batch   *)
(* changes no record that is not Pending; a save is applied only to a *)
(* record that is not Pending; the save button of the open record is  *)
(* rendered exactly when its status is Extracted, ExtractedFallback   *)
(* or Reviewed; a rejected batch changes no record.                   *)
C8_IllegalOperationsRejected ==
    [][/\ event'.op = "batch" =>
            \A f \in DOMAIN papers_data :
                (papers_data[f].status # Pending \/ event'.rejected)
                    => Core(papers_data'[f]) = Core(papers_data[f])
       /\ event'.op = "commit" => papers_data[event'.file].status # Pending
       /\ current_file # None =>
            (SaveVisible <=> papers_data[current_file[1]].status
                                \in {Extracted, ExtractedFallback, Reviewed})]_vars

(* a batch click was rejected while the editor shows a pending record *)
(* and the other record is already reviewed                           *)
C8_Witness ==
    /\ event.op = "batch"
    /\ event.rejected
    /\ current_file # None
    /\ Stored(current_file[1]).status = Pending
    /\ ~SaveVisible
    /\ \E g \in DOMAIN papers_data : Stored(g).status = Reviewed

(* ----------------------------- report ------------------------------ *)
Tables(document) == SelectSeq(document, LAMBDA b : b.kind = "table")

(* the data rows of a document: the rows below each table's header *)
RECURSIVE DataRows(_)
DataRows(tables) ==
    IF tables = << >> THEN << >>
    ELSE Tail(Head(tables).rows) \o DataRows(Tail(tables))

ReviewedInOrder == SelectSeq(papers_keys, LAMBDA k : Stored(k).status = Reviewed)

(* C9: a generated report has exactly one data row per Reviewed       *)
(* record, in the upload order of the store: row i is the row of the  *)
(* i-th Reviewed record, and no other record contributes a row.       *)
C9_ReportRowsAreReviewedInOrder ==
    event.op = "generate" =>
        /\ word_buffer # None
        /\ LET rows == DataRows(Tables(word_buffer[1])) IN
           /\ Len(rows) = Len(ReviewedInOrder)
           /\ \A i \in 1..Len(rows) :
                 LET p == Stored(ReviewedInOrder[i]) IN
                 /\ rows[i][1] = << Run(p.extracted_data[1].title) >>
                 /\ rows[i] = DataRow(p.extracted_data[1], p.selected_image)

(* a report over two reviewed records, the second upload first in the *)
(* store                                                              *)
C9_Witness ==
    /\ event.op = "generate"
    /\ papers_keys = <<"b.pdf", "a.pdf">>
    /\ ReviewedInOrder = <<"b.pdf", "a.pdf">>
    /\ Stored("a.pdf").extracted_data[1].title # Stored("b.pdf").extracted_data[1].title

(* a report generated while one record is reviewed and the other only *)
(* extracted                                                          *)
C9_WitnessFiltered ==
    /\ event.op = "generate"
    /\ Len(ReviewedInOrder) = 1
    /\ \E g \in DOMAIN papers_data : Stored(g).status = Extracted

(* C10: a generated report holds a single table of five columns: one  *)
(* header row and one data row per Reviewed record.                   *)
C10_SingleTable ==
    event.op = "generate" =>
        LET tables == Tables(word_buffer[1]) IN
        /\ Len(tables) = 1
        /\ Len(tables[1].rows) = 1 + Len(ReviewedInOrder)
        /\ \A i \in 1..Len(tables[1].rows) : Len(tables[1].rows[i]) = 5

(* the title block of a document: heading, time, note, empty line *)
HasTitleBlock(document) ==
    /\ Len(document) >= 4
    /\ \E now \in Times : SubSeq(document, 1, 4) = NewDocument(now)

(* C11: the report assembled over zero Reviewed records holds the     *)
(* title block and one table made of the header row only.             *)
C11_EmptyReportHasHeaderTable ==
    (event.op = "assemble" /\ ReviewedInOrder = << >>) =>
        /\ HasTitleBlock(word_buffer[1])
        /\ Tables(word_buffer[1]) = << Table(<< HeaderRow >>) >>

(* the text of a cell: the texts of its runs, one after the other *)
RECURSIVE CellText(_)
CellText(cell) ==
    IF cell = << >> THEN << >>
    ELSE (IF Head(cell).kind = "text" THEN Head(cell).text ELSE << >>) \o CellText(Tail(cell))

(* the runs of the combined cell below its "conclusions" heading *)
ConclusionPart(cell) ==
    LET h == CHOOSE j \in 1..Len(cell) : cell[j] = Run(<<"\n\n2. conclusions:\n">>)
    IN  SubSeq(cell, h + 1, Len(cell))

(* sub occurs in text as a run of consecutive tokens *)
IsInfix(sub, text) ==
    \E k \in 0..(Len(text) - Len(sub)) : SubSeq(text, k + 1, k + Len(sub)) = sub

(* the list "(1) c1", "(2) c2", ... one entry per line *)
RECURSIVE NumberedFrom(_, _)
NumberedFrom(conclusions, i) ==
    IF conclusions = << >> THEN << >>
    ELSE <<"(", NumStr(i), ") ">> \o Head(conclusions) \o <<"\n">>
            \o NumberedFrom(Tail(conclusions), i + 1)

(* the rows of the assembled report with the records they come from *)
ReportRows == DataRows(Tables(word_buffer[1]))

C13_GenerateMutatesNoRecord ==
    [][event'.op = "generate" =>
          /\ papers_keys' = papers_keys
          /\ DOMAIN papers_data' = DOMAIN papers_data
          /\ \A f \in DOMAIN papers_data : Core(papers_data'[f]) = Core(papers_data[f])
          /\ current_file' = current_file
          /\ word_buffer' # None]_vars

(* a report was generated over a reviewed record with a bound image   *)
(* while another record is not reviewed                               *)
C13_Witness ==
    /\ event.op = "generate"
    /\ \E f \in DOMAIN papers_data :
          Stored(f).status = Reviewed /\ Stored(f).selected_image # None
    /\ \E g \in DOMAIN papers_data : Stored(g).status \in {Extracted, ExtractedFallback}

(* two documents agree in everything but the time of generation *)
SameButTime(d1, d2) ==
    /\ Len(d1) = Len(d2)
    /\ \A i \in 1..Len(d1) : i # 2 => d1[i] = d2[i]
    /\ \E t1 \in Times, t2 \in Times :
          d1[2] = Paragraph(<<"generated: ", t1>>) /\ d2[2] = Paragraph(<<"generated: ", t2>>)

(* C14: generating the report twice in a row, with no edit between    *)
(* the two clicks, gives documents equal in every element except the  *)
(* time of generation; the second document holds no row of the first. *)
C14_GenerateDeterministic ==
    [][(event.op = "generate" /\ event'.op = "generate") =>
          /\ SameButTime(word_buffer[1], word_buffer'[1])
          /\ Len(DataRows(Tables(word_buffer'[1]))) = Len(ReviewedInOrder)]_vars

(* a report generated over a cached one, at a later time *)
C14_Witness ==
    /\ event.op = "generate"
    /\ event.again
    /\ word_buffer[1][2] = Paragraph(<<"generated: ", "t2">>)
    /\ Len(ReviewedInOrder) >= 1

(* the cell holds a picture of src, or a run with exactly this text *)
HasPicture(cell, src) == \E j \in 1..Len(cell) : cell[j].kind = "picture" /\ cell[j].src = src
HasRun(cell, text) == \E j \in 1..Len(cell) : cell[j].kind = "text" /\ cell[j].text = text

(* a formula or image the libraries fail on *)
FormulaFails(formula) == formula \in Unrenderable \cup UnembeddableFormulas
ImageFails(image) == image \in Unembeddable

C16_BindOverwrites ==
    [][/\ \A f \in DOMAIN papers_data' : Len(papers_data'[f].selected_image) <= 1
       /\ event'.op = "bind" =>
             /\ papers_data'[event'.file].selected_image = event'.cropped
             /\ \A g \in DOMAIN papers_data \ {event'.file} :
                   papers_data'[g].selected_image = papers_data[g].selected_image
       /\ event'.op # "bind" =>
             \A g \in DOMAIN papers_data :
                 papers_data'[g].selected_image = papers_data[g].selected_image]_vars

(* a second image was bound over a first one while another record     *)
(* holds an image of its own                                          *)
C16_Witness ==
    /\ event.op = "bind"
    /\ event.had = Some("img1")
    /\ event.cropped = Some("img2")
    /\ Stored(event.file).selected_image = Some("img2")
    /\ \E g \in DOMAIN papers_data \ {event.file} : Stored(g).selected_image = Some("img1")

(* C17: the bound image does not depend on the status.  The crop      *)
(* button is offered for the open record in each of the statuses      *)
(* Extracted, ExtractedFallback and Reviewed once its pages are       *)
(* loaded; a binding sets or clears the image and leaves status,      *)
(* fields and error_log alone; a save leaves the image, the error_log *)
(* and the uploaded file of the record alone.                         *)
C17_ImageIndependentOfStatus ==
    [][/\ current_file # None =>
            (CropVisible <=>
                /\ papers_data[current_file[1]].status \in {Extracted, ExtractedFallback, Reviewed}
                /\ Len(papers_data[current_file[1]].pages) > 0)
       /\ event'.op = "bind" =>
            LET f == event'.file IN
            /\ papers_data[f].status \in {Extracted, ExtractedFallback, Reviewed}
            /\ papers_data'[f].selected_image = event'.cropped
            /\ papers_data'[f].status = papers_data[f].status
            /\ papers_data'[f].extracted_data = papers_data[f].extracted_data
            /\ papers_data'[f].error_log = papers_data[f].error_log
       /\ event'.op = "commit" =>
            LET f == event'.file IN
            /\ papers_data'[f].selected_image = papers_data[f].selected_image
            /\ papers_data'[f].error_log = papers_data[f].error_log
            /\ papers_data'[f].file_obj = papers_data[f].file_obj]_vars

(* the image of a reviewed record, bound before, was just cleared     *)
(* while the record keeps its fallback error_log entry                *)
C17_Witness ==
    /\ event.op = "bind"
    /\ event.had # None
    /\ event.cropped = None
    /\ Stored(event.file).status = Reviewed
    /\ Stored(event.file).selected_image = None
    /\ Stored(event.file).error_log # << >>

(* an image was bound to a record holding fallback data, not reviewed *)
C17_WitnessFallback ==
    /\ event.op = "bind"
    /\ event.cropped # None
    /\ Stored(event.file).status = ExtractedFallback

(* an image bound before the review is still there after the save *)
C17_WitnessCommit ==
    /\ event.op = "commit"
    /\ Stored(event.file).selected_image # None

(* ------------------------------ store ------------------------------ *)

(* s is a prefix of t *)
IsPrefix(s, t) == Len(s) <= Len(t) /\ SubSeq(t, 1, Len(s)) = s

(* C18: in every step, every record's error_log before the step is a  *)
(* prefix of its error_log after the step: entries are only added at  *)
(* the end, never removed, reordered or rewritten.                    *)
C18_ErrorLogAppendOnly ==
    [][\A f \in DOMAIN papers_data :
          /\ f \in DOMAIN papers_data'
          /\ IsPrefix(papers_data[f].error_log, papers_data'[f].error_log)]_vars

(* a record saved from its fallback data still holds the entry of the *)
(* failed extraction                                                  *)
C18_Witness ==
    /\ event.op = "commit"
    /\ event.was = ExtractedFallback
    /\ Len(Stored(event.file).error_log) = 1
    /\ Stored(event.file).status = Reviewed

(* C19: the store only grows.  In every step the keys before the step *)
(* are a prefix of the keys after it and no key occurs twice; the     *)
(* records are exactly those of the keys; an upload leaves status,    *)
(* fields, image and error_log of every record already stored as      *)
(* they were.                                                         *)
C19_StoreNeverEvicts ==
    [][/\ IsPrefix(papers_keys, papers_keys')
       /\ \A i, j \in 1..Len(papers_keys') : papers_keys'[i] = papers_keys'[j] => i = j
       /\ DOMAIN papers_data' = Range(papers_keys')
       /\ event'.op = "upload" =>
             \A f \in DOMAIN papers_data : Core(papers_data'[f]) = Core(papers_data[f])]_vars

(* a.pdf, already reviewed, was uploaded again together with b.pdf *)
C19_Witness ==
    /\ event.op = "upload"
    /\ event.files = <<"b.pdf", "a.pdf">>
    /\ papers_keys = <<"a.pdf", "b.pdf">>
    /\ Stored("a.pdf").status = Reviewed
    /\ Stored("b.pdf").status = Pending

Untouched(f) == Stored(f) = NewRecord(f)

(* C21: while a batch runs, every record before the current one is    *)
(* complete (Extracted or ExtractedFallback) and every record after   *)
(* it is untouched, so at most one record is partly processed; the    *)
(* records end as the loop over the queue leaves them.                *)
C21_BatchSequential ==
    /\ Running =>
          /\ \A i \in 1..Len(event.pending) :
                /\ i < event.k => Stored(event.pending[i]).status \in {Extracted, ExtractedFallback}
                /\ i > event.k => Untouched(event.pending[i])
          /\ event.pc = "done" <=> event.k = Len(event.pending) + 1
          /\ event.pc = "pdf" => Untouched(Current)
    /\ BatchRan =>
          papers_data = BatchLoop([f \in DOMAIN papers_data |-> NewRecord(f)], event.pending,
                                  event.use_mock_data, event.outcome)

(* the second record is half way through its except branch: the first *)
(* is complete, the third untouched                                   *)
C21_Witness ==
    /\ Running
    /\ event.k = 2
    /\ event.pc = "fb_status"
    /\ Stored(event.pending[2]).status = Pending
    /\ Stored(event.pending[2]).extracted_data # None
    /\ Stored(event.pending[1]).status = Extracted
    /\ Untouched(event.pending[3])

(* ------------------------------------------------------------------ *)
(* C22: page numbers are 1-indexed and an image is returned only for   *)
(* 1 <= page_number <= page count: a page number below 1, beyond the   *)
(* last page, or any page number of a document without pages gives     *)
(* the failure result None, no image; an image that is returned is the *)
(* image of the page with that number.                                 *)
PageCall == event.op \in {"get_page_as_image", "extract_pdf_page_as_image"}
PageCount == get_page_count(papers_data["a.pdf"].pages)
InPageRange == 1 <= event.page_num /\ event.page_num <= PageCount

C22_RenderPageInRange ==
    PageCall =>
       /\ event.result # None => InPageRange
       /\ (event.page_num < 1 \/ event.page_num > PageCount \/ PageCount = 0)
             => event.result = None
       /\ (event.op = "get_page_as_image" /\ InPageRange /\ event.rendering = "ok")
             => event.result = Some([page |-> event.page_num,
                                     data |-> <<"png">> \o papers_data["a.pdf"].pages[event.page_num]])
       /\ (event.op = "extract_pdf_page_as_image" /\ event.result # None)
             => event.result[1] = <<"image", "png">> \o papers_data["a.pdf"].pages[event.page_num]

(* a page number beyond the last page of a loaded document was refused *)
C22_Witness ==
    /\ PageCall
    /\ PageCount > 0
    /\ event.page_num = PageCount + 1
    /\ event.result = None

(* the last page of a document was rendered *)
C22_WitnessLastPage ==
    /\ event.op = "extract_pdf_page_as_image"
    /\ PageCount = MaxPages
    /\ event.page_num = PageCount
    /\ event.result # None

(* ------------------------------------------------------------------ *)
(* C23: a degenerate rectangle (zero width or zero height) is          *)
(* rejected: the cropper returns no image for it, so every image it    *)
(* returns has a positive width and a positive height.                 *)
C23_DegenerateRejected ==
    (event.op = "simple_crop" /\ event.result # None) =>
        /\ event.result[1].size[1] > 0
        /\ event.result[1].size[2] > 0

(* ------------------------------------------------------------------ *)
(* C30: for all slider values left, right in 0..width and top, bottom  *)
(* in 0..height the rectangle that is cropped is (min(left, right),    *)
(* min(top, bottom), max(left, right), max(top, bottom)): inverted     *)
(* sliders select the region of the swapped ones.                      *)
C30_SlidersNormalised ==
    (event.op = "simple_crop" /\ event.confirm) =>
        /\ event.result[1].box = <<Min(event.left, event.right), Min(event.top, event.bottom),
                                   Max(event.left, event.right), Max(event.top, event.bottom)>>
        /\ event.result = simple_crop(event.right, event.bottom, event.left, event.top, TRUE)

(* ------------------------------------------------------------------ *)
(* C24: for a document of P pages the text given to the extraction     *)
(* adapter is the text of pages 1..min(3, P), in increasing page       *)
(* order (each page that has text followed by a blank line): the pages *)
(* read are exactly 1..min(3, P), nothing of a page beyond the third   *)
(* is in the text, and for P = 0 no page is read and the text is empty.*)
TextPart(pages, i) ==
    IF i <= Len(pages) /\ pages[i] # << >> THEN pages[i] \o <<"\n\n">> ELSE << >>

C24_FirstThreePages ==
    event.op = "read_text" =>
        LET pages == papers_data["a.pdf"].pages
            P     == Len(pages)
        IN  /\ event.read = [i \in 1..Min(3, P) |-> i]
            /\ event.text = TextPart(pages, 1) \o TextPart(pages, 2) \o TextPart(pages, 3)
            /\ \A i \in 4..P : PageText(i)[2] \notin Range(event.text)
            /\ P = 0 => (event.read = << >> /\ event.text = << >>)

(* the text of a five-page document whose pages all have text was read *)
C24_Witness ==
    /\ event.op = "read_text"
    /\ Len(papers_data["a.pdf"].pages) > 3
    /\ \A i \in DOMAIN papers_data["a.pdf"].pages : papers_data["a.pdf"].pages[i] # << >>
    /\ Len(event.read) = 3

(* no page of an empty document was read *)
C24_WitnessEmpty ==
    /\ event.op = "read_text"
    /\ papers_data["a.pdf"].pages = << >>
    /\ event.read = << >>

(* ------------------------------------------------------------------ *)
(* C25: extract_with_retry returns after at most max_retries calls of  *)
(* extract_from_text.  While it loops every call made so far has       *)
(* raised; it returns the result of the first call that does not raise *)
(* and calls no more; when all max_retries calls raise (or max_retries *)
(* is 0) it returns a result with metadata.failed = True and empty     *)
(* summary, parameters, equations and figures; and every call of it    *)
(* does return.                                                        *)
Retrying == event.op = "extract_with_retry"
AttemptRaised(j) == extract_from_text(event.apis[j]).raised

C25_RetryInvariant ==
    Retrying =>
       /\ event.calls <= event.max_retries
       /\ event.pc = "loop" =>
             /\ event.result = None
             /\ event.calls = event.attempt
             /\ \A j \in 1..event.calls : AttemptRaised(j)
       /\ event.pc = "returned" =>
             /\ \A j \in 1..(event.calls - 1) : AttemptRaised(j)
             /\ IF event.calls > 0 /\ ~AttemptRaised(event.calls)
                THEN event.result = Some(extract_from_text(event.apis[event.calls]))
                ELSE /\ event.calls = event.max_retries
                     /\ event.result[1].metadata.failed
                     /\ event.result[1].summary = << >>
                     /\ event.result[1].parameters = << >>
                     /\ event.result[1].equations = << >>
                     /\ event.result[1].figures = << >>

C25_RetryTerminates ==
    /\ []C25_RetryInvariant
    /\ <>(Retrying /\ event.pc = "returned")
    /\ [][Retrying /\ event.pc = "returned" => UNCHANGED event]_vars

(* all three attempts raised and the failed result was returned *)
C25_Witness ==
    /\ Retrying /\ event.pc = "returned"
    /\ event.max_retries = MaxRetries
    /\ event.calls = MaxRetries
    /\ \A j \in 1..MaxRetries : AttemptRaised(j)
    /\ event.result[1].metadata.failed

(* the second attempt succeeded and the third was never made *)
C25_WitnessSecond ==
    /\ Retrying /\ event.pc = "returned"
    /\ event.max_retries = MaxRetries
    /\ event.calls = 2
    /\ event.result = Some(extract_from_text(event.apis[2]))

(* ------------------------------------------------------------------ *)
(* C26: for every text and chunk_size every chunk _split_text returns  *)
(* has at most chunk_size characters, the paragraphs of the chunks     *)
(* are, in order, the paragraphs of the text (each in exactly one      *)
(* chunk), and a text of at most chunk_size characters is returned as  *)
(* a single chunk.                                                     *)
RECURSIVE Flatten(_)
Flatten(seqs) == IF seqs = << >> THEN << >> ELSE Head(seqs) \o Flatten(Tail(seqs))

(* the paragraphs that have text, without surrounding whitespace *)
Paragraphs(text) ==
    SelectSeq([i \in 1..Len(split(text, << >>)) |-> strip(split(text, << >>)[i])],
              LAMBDA p : p # << >>)

ChunksBounded == \A i \in 1..Len(event.chunks) : Len(event.chunks[i]) <= event.chunk_size

ChunksKeepParagraphs ==
    Flatten([i \in 1..Len(event.chunks) |-> Paragraphs(event.chunks[i])]) = Paragraphs(event.text)

C26_ChunksBoundedAndComplete ==
    event.op = "_split_text" =>
        /\ ChunksBounded
        /\ ChunksKeepParagraphs
        /\ Len(event.text) <= event.chunk_size => event.chunks = <<event.text>>

(* ------------------------------------------------------------------ *)
(* C27: whenever a report can be downloaded (word_buffer is not None)  *)
(* it is the report of the current Reviewed records: generating now,   *)
(* at the time it was generated, would give the same document.         *)
C27_DownloadIsCurrent ==
    DownloadVisible =>
        \E now \in Times :
            word_buffer = Some(GenerateLoop(NewDocument(now), papers_data,
                                            reviewed_papers(papers_keys, papers_data)))

(* ------------------------------------------------------------------ *)
(* C28: in the single-paper workflow selected_image_index designates   *)
(* the crop the user last chose with "use" for the file now uploaded,  *)
(* or no image if none was chosen (or the chosen crop was deleted or   *)
(* already attached), and the image attached to a new entry is that    *)
(* crop.                                                               *)
C28_AttachedImageIsChosen ==
    /\ SelectedImage(session_state) = event.chosen
    /\ event.op = "v2_add_entry" =>
          session_state.analyzed_papers[Len(session_state.analyzed_papers)].image = event.chose

(* ------------------------------------------------------------------ *)
(* C29: a commit loses no field of the record: a Reviewed record has   *)
(* every field an extracted record has (title, purpose, conclusions,   *)
(* parameters, formulas, comments, tags, page_source), and its         *)
(* page_source is written into its row of the report.                  *)
RecordFields ==
    {"title", "purpose", "conclusion", "params", "formulas", "comments", "why", "page_source"}

C29_CommitKeepsFields ==
    /\ \A f \in DOMAIN papers_data :
          Stored(f).status = Reviewed => RecordFields \subseteq DOMAIN Stored(f).extracted_data[1]
    /\ event.op = "generate" =>
          \A r \in 1..Len(ReviewedInOrder) :
              IsInfix(<<"[source: page ">> \o Stored(ReviewedInOrder[r]).extracted_data[1].page_source,
                      CellText(ReportRows[r][2]))

=============================================================================
